---- MODULE Spec2Model ----
(***************************************************************************)
(* Model of api/generate.js: the upload-to-Mermaid request handler, in its *)
(* two variants (combined corpus, lines 1-178; per-file with merge, lines  *)
(* 180-344).  One request is followed from the method check to res.send.   *)
(*                                                                         *)
(* Strings are modelled in two ways, by what the code does with them:      *)
(*  - file contents and the corpus are run-length encoded: a sequence of   *)
(*    pieces [s |-> literal, n |-> repetitions], so that the 15000         *)
(*    character cap keeps its real value;                                  *)
(*  - diagram texts (model responses, response bodies) are sequences of    *)
(*    word tokens, with " " and "\n" as the whitespace tokens.             *)
(***************************************************************************)
EXTENDS Integers, Sequences, FiniteSets

\* ------------------------------------------------------------------ bounds
\* Largest number of uploaded files in one request.
MaxFiles == 2

\* ------------------------------------------------------- run-length texts
Piece(s, n) == [s |-> s, n |-> n]

SP == " "
NL == "\n"
NUL == "\\0"

\* "\n[TRUNCATED]", generate.js:71
TRUNC_MARKER == "\\n[TRUNCATED]"

\* JavaScript's String.prototype.trim strips these (of the characters used).
IsWhitespaceChar(s) == s \in {SP, NL}

\* c.charCodeAt(0) >= 32, generate.js:15 and 191 (NL is 10, NUL is 0).
IsPrintableChar(s) == s \notin {NL, NUL}

\* The literals of the corpus, generate.js:50-53, 61-64, 74-77
FILE_OPEN == "\\n=== FILE: "
FILE_CLOSE == " ===\\n"
UNSUPPORTED_NOTE == "[Unsupported file type. Only OCR-extracted text files are accepted.]"
UNREADABLE_NOTE == "[File does not appear to contain readable text.]"

\* Number of characters of one literal (a file name here has five).
LitLen(s) ==
  CASE s = TRUNC_MARKER -> 12
    [] s = FILE_OPEN -> 11
    [] s = FILE_CLOSE -> 5
    [] s = UNSUPPORTED_NOTE -> 68
    [] s = UNREADABLE_NOTE -> 48
    [] s \in {"a.txt", "B.TXT", "c.pdf"} -> 5
    [] OTHER -> 1

RECURSIVE TextLength(_)
TextLength(t) ==
  IF t = <<>> THEN 0
  ELSE LitLen(Head(t).s) * Head(t).n + TextLength(Tail(t))

RECURSIVE PrintableCount(_)
PrintableCount(t) ==
  IF t = <<>> THEN 0
  ELSE (IF IsPrintableChar(Head(t).s) THEN Head(t).n ELSE 0)
       + PrintableCount(Tail(t))

RECURSIVE TrimStart(_)
TrimStart(t) ==
  IF t = <<>> THEN <<>>
  ELSE IF IsWhitespaceChar(Head(t).s) THEN TrimStart(Tail(t))
  ELSE t

RECURSIVE TrimEnd(_)
TrimEnd(t) ==
  IF t = <<>> THEN <<>>
  ELSE IF IsWhitespaceChar(t[Len(t)].s) THEN TrimEnd(SubSeq(t, 1, Len(t) - 1))
  ELSE t

\* buffer.toString("utf8").trim(), generate.js:58
TextTrim(t) == TrimEnd(TrimStart(t))

\* text.slice(0, k) on single-character runs
RECURSIVE TextSlice(_, _)
TextSlice(t, k) ==
  IF t = <<>> \/ k <= 0 THEN <<>>
  ELSE IF Head(t).n <= k
       THEN <<Head(t)>> \o TextSlice(Tail(t), k - Head(t).n)
       ELSE <<Piece(Head(t).s, k)>>

\* looksLikeText of the combined-corpus variant, generate.js:11-18
looksLikeText(text) ==
  IF text = <<>> \/ TextLength(text) = 0 THEN FALSE
  ELSE 10 * PrintableCount(text) > 8 * TextLength(text)

\* looksLikeText of the per-file variant, generate.js:188-193
looksLikeTextPF(text) ==
  IF text = <<>> THEN FALSE
  ELSE 10 * PrintableCount(text) > 8 * TextLength(text)

\* const MAX_CHARS = 15000, generate.js:69
MAX_CHARS == 15000

\* The truncation step, generate.js:70-72
Truncate(text) ==
  IF TextLength(text) > MAX_CHARS
  THEN TextSlice(text, MAX_CHARS) \o <<Piece(TRUNC_MARKER, 1)>>
  ELSE text

\* ---------------------------------------------------------- diagram texts
IsWs(tok) == tok \in {SP, NL}

\* Case folding of the header words, for the /i flag of generate.js:308.
Lower(tok) ==
  CASE tok \in {"graph", "Graph", "GRAPH"} -> "graph"
    [] tok \in {"TD", "td"} -> "td"
    [] tok \in {"LR", "lr"} -> "lr"
    [] OTHER -> tok

\* The unanchored word "graph" of /(graph\s+(TD|LR)[\s\S]*)/ also matches
\* the tail of "subgraph".
EndsWithGraph(tok) == tok \in {"graph", "subgraph"}

\* q is the index of the TD|LR that completes a header begun at p:
\* one or more whitespace tokens lie between p and q.
HeaderEnd(t, p, dirs, fold) ==
  LET ok(q) == /\ q > p + 1
               /\ \A k \in (p + 1)..(q - 1) : IsWs(t[k])
               /\ (IF fold THEN Lower(t[q]) ELSE t[q]) \in dirs
      qs == {q \in (p + 2)..Len(t) : ok(q)}
  IN  IF qs = {} THEN 0 ELSE CHOOSE q \in qs : TRUE

\* A variant of MatchStart that ignores the letter case (the /i flag).
MatchStartIgnoreCase(t) ==
  LET ps == {p \in 1..Len(t) :
               /\ Lower(t[p]) \in {"graph", "subgraph"}
               /\ HeaderEnd(t, p, {"td", "lr"}, TRUE) # 0}
  IN  IF ps = {} THEN 0 ELSE CHOOSE p \in ps : \A r \in ps : p <= r

\* Index of the leftmost match of graph\s+(TD|LR), case-sensitive; 0 if none.
MatchStart(t) ==
  LET ps == {p \in 1..Len(t) :
               EndsWithGraph(t[p]) /\ HeaderEnd(t, p, {"TD", "LR"}, FALSE) # 0}
  IN  IF ps = {} THEN 0 ELSE CHOOSE p \in ps : \A r \in ps : p <= r

RECURSIVE TokTrimStart(_)
TokTrimStart(t) ==
  IF t = <<>> THEN <<>>
  ELSE IF IsWs(Head(t)) THEN TokTrimStart(Tail(t))
  ELSE t

RECURSIVE TokTrimEnd(_)
TokTrimEnd(t) ==
  IF t = <<>> THEN <<>>
  ELSE IF IsWs(t[Len(t)]) THEN TokTrimEnd(SubSeq(t, 1, Len(t) - 1))
  ELSE t

\* String.prototype.trim on a diagram text
TokTrim(t) == TokTrimEnd(TokTrimStart(t))

\* 'graph TD\nA["No valid Mermaid diagram returned"]', generate.js:169
FALLBACK_COMBINED == <<"graph", SP, "TD", NL, "A[\"No valid Mermaid diagram returned\"]">>

\* 'graph TD\nA["No extractable legal entities found"]', generate.js:222
PLACEHOLDER_NODE == "A[\"No extractable legal entities found\"]"
FALLBACK_PERFILE == <<"graph", SP, "TD", NL, PLACEHOLDER_NODE>>

\* data.content?.[0]?.text || "", generate.js:164 and 217
RawText(data) ==
  IF data.kind = "text" THEN data.text ELSE <<>>

\* A variant of ExtractDiagram that hands the raw text on when nothing matches.
ExtractDiagramNoFallback(rawText, fallback) ==
  LET p == MatchStart(rawText)
  IN  IF p = 0 THEN rawText
      ELSE TokTrim(<<"graph">> \o SubSeq(rawText, p + 1, Len(rawText)))

\* rawText.match(...) ? match[1].trim() : fallback, generate.js:165-169, 218-222
ExtractDiagram(rawText, fallback) ==
  LET p == MatchStart(rawText)
  IN  IF p = 0 THEN fallback
      ELSE TokTrim(<<"graph">> \o SubSeq(rawText, p + 1, Len(rawText)))

\* partialDiagram.replace(/^graph\s+(TD|LR)\s*/i, ""), generate.js:308
StripHeader(t) ==
  IF t = <<>> \/ Lower(t[1]) # "graph" THEN t
  ELSE LET q == HeaderEnd(t, 1, {"td", "lr"}, TRUE)
       IN  IF q = 0 THEN t
           ELSE TokTrimStart(SubSeq(t, q + 1, Len(t)))

\* body.split("\n"), generate.js:310
RECURSIVE SplitLines(_)
SplitLines(t) ==
  LET nls == {k \in 1..Len(t) : t[k] = NL}
  IN  IF nls = {} THEN <<t>>
      ELSE LET k == CHOOSE x \in nls : \A y \in nls : x <= y
           IN  <<SubSeq(t, 1, k - 1)>> \o SplitLines(SubSeq(t, k + 1, Len(t)))

\* line.trim(), generate.js:311 (a line holds no "\n")
CleanLine(line) == TokTrim(line)

\* The forEach of generate.js:310-316 over the lines from index k on;
\* acc is [body |-> mergedBody, seen |-> seenLines].
RECURSIVE MergeLines(_, _, _)
MergeLines(lines, k, acc) ==
  IF k > Len(lines) THEN acc
  ELSE LET clean == CleanLine(lines[k])
       IN  IF clean # <<>> /\ clean \notin acc.seen
           THEN MergeLines(lines, k + 1,
                           [body |-> acc.body \o clean \o <<NL>>,
                            seen |-> acc.seen \cup {clean}])
           ELSE MergeLines(lines, k + 1, acc)

\* One fragment merged into (mergedBody, seenLines), generate.js:307-316
MergeFragment(fragment, acc) ==
  MergeLines(SplitLines(StripHeader(fragment)), 1, acc)

\* CLASS_STYLES, generate.js:321-329
CLASSDEF_CASE == "classDef case fill:#fef3c7,stroke:#92400e,stroke-width:1px,color:#000;"
CLASSDEF_PERSON == "classDef person fill:#e0f2fe,stroke:#0369a1,stroke-width:1px,color:#000;"
CLASSDEF_ORGANISATION == "classDef organisation fill:#dcfce7,stroke:#166534,stroke-width:1px,color:#000;"
CLASSDEF_LEGAL_ISSUE == "classDef legal_issue fill:#fee2e2,stroke:#991b1b,stroke-width:1px,color:#000;"
CLASSDEF_EVENT == "classDef event fill:#ede9fe,stroke:#5b21b6,stroke-width:1px,color:#000;"
CLASSDEF_DOCUMENT == "classDef document fill:#f1f5f9,stroke:#334155,stroke-width:1px,color:#000;"
CLASSDEF_LOCATION == "classDef location fill:#fff7ed,stroke:#9a3412,stroke-width:1px,color:#000;"
CLASS_STYLES ==
  <<NL, CLASSDEF_CASE, NL, CLASSDEF_PERSON, NL, CLASSDEF_ORGANISATION, NL,
    CLASSDEF_LEGAL_ISSUE, NL, CLASSDEF_EVENT, NL, CLASSDEF_DOCUMENT, NL,
    CLASSDEF_LOCATION, NL>>

\* The final assembly, generate.js:331-337
FinalDiagram(body) ==
  <<"graph", SP, "TD", NL>> \o CLASS_STYLES \o <<NL>>
    \o (IF TokTrim(body) # <<>> THEN body ELSE <<PLACEHOLDER_NODE>>)

\* ------------------------------------------------------------ the inputs
\* File contents a request can carry.
SHORT_TEXT == <<Piece(SP, 2), Piece("x", 40), Piece(NL, 1)>>
LONG_TEXT == <<Piece("x", 9000), Piece(SP, 1), Piece("x", 8000)>>
AT_CAP_TEXT == <<Piece("x", MAX_CHARS), Piece(NL, 1)>>
BINARY_TEXT == <<Piece(NUL, 2), Piece("x", 8)>>
EMPTY_TEXT == <<>>

\* f.originalFilename.toLowerCase(), generate.js:49
ToLowerCase(name) ==
  CASE name = "B.TXT" -> "b.txt"
    [] OTHER -> name

\* .endsWith(".txt"), generate.js:49
EndsWithTxt(name) == name \in {"a.txt", "b.txt"}

UploadedFiles ==
  { [originalFilename |-> "a.txt", content |-> SHORT_TEXT],
    [originalFilename |-> "B.TXT", content |-> LONG_TEXT],
    [originalFilename |-> "c.pdf", content |-> SHORT_TEXT],
    [originalFilename |-> "a.txt", content |-> AT_CAP_TEXT],
    [originalFilename |-> "a.txt", content |-> BINARY_TEXT],
    [originalFilename |-> "B.TXT", content |-> EMPTY_TEXT] }

\* Object.values(files), flattened as the two nested loops visit it.
FileLists == UNION {[1..n -> UploadedFiles] : n \in 0..MaxFiles}

Methods == {"POST", "GET"}

\* Texts the remote model can answer with.
T_PLAIN == <<"graph", SP, "TD", NL, "A-->B", NL, "B-->C">>
T_SHARED == <<"graph", SP, "LR", NL, SP, "A-->B", SP, NL,
              "X-->|Director| Y:::organisation", NL>>
T_COMMENT == <<"Here is the diagram:", NL, "~~~mermaid", NL,
               "graph", SP, SP, "TD", NL, "C-->D", NL, "~~~">>
T_UPPER == <<"Graph", SP, "TD", NL, "E-->F">>
T_LOWER == <<"GRAPH", SP, "lr", NL, "E-->F">>
T_PROSE == <<"I could not find any entities.">>
T_CLASSDEF == <<"graph", SP, "TD", NL, CLASSDEF_CASE, NL, "A-->B">>
T_SUBGRAPH == <<"subgraph", SP, "LR", NL, "G-->H">>

\* The parsed JSON of a response: an error object (no content), an empty
\* content list, or a first block with text (possibly empty).
Responses ==
  { [kind |-> "noContent", text |-> <<>>],
    [kind |-> "emptyContent", text |-> <<>>],
    [kind |-> "text", text |-> <<>>] }
  \cup { [kind |-> "text", text |-> t] :
           t \in {T_PLAIN, T_SHARED, T_COMMENT, T_UPPER, T_LOWER, T_PROSE,
                  T_CLASSDEF, T_SUBGRAPH} }

\* ---------------------------------------------------------------- state
VARIABLES
  variant,      \* which handler of generate.js serves: "combined" or "perfile"
  method,       \* req.method
  pc,           \* where the handler is suspended
  files,        \* the parsed upload, in order
  i,            \* index of the file the loops are at
  combinedText, \* combined variant: the corpus
  mergedBody,   \* per-file variant: merged body
  seenLines,    \* per-file variant: the Set of lines already merged
  status,       \* status of the response sent, 0 before any
  body,         \* body of the response sent
  reads,        \* history: file indices handed to fs.promises.readFile
  calls,        \* history: documents posted to the remote model
  sent,         \* history: per file, the file text put into a prompt
  gen,          \* history: per returned call, the data and the fragment
  inFlight,     \* remote calls issued and not yet returned
  failure       \* history: the rejection that ended the request, if any

vars == <<variant, method, pc, files, i, combinedText, mergedBody, seenLines,
          status, body, reads, calls, sent, gen, inFlight, failure>>

Init ==
  /\ variant \in {"combined", "perfile"}
  /\ method \in Methods
  /\ pc = "start"
  /\ files = <<>>
  /\ i = 0
  /\ combinedText = <<>>
  /\ mergedBody = <<>>
  /\ seenLines = {}
  /\ status = 0
  /\ body = <<>>
  /\ reads = <<>>
  /\ calls = <<>>
  /\ sent = <<>>
  /\ gen = <<>>
  /\ inFlight = 0
  /\ failure = "none"

\* res.status(code).send(text); the handler returns or ends.
Respond(code, text) ==
  /\ status' = code
  /\ body' = text
  /\ pc' = "done"

\* The catch block, generate.js:172-177 and 340-343
SERVER_ERROR_BODY == <<"graph", SP, "TD", NL, "A[\"Server error - see logs\"]">>
Catch(why) ==
  /\ Respond(500, SERVER_ERROR_BODY)
  /\ failure' = why

NO_FILES_BODY == <<"graph", SP, "TD", NL, "A[\"No files uploaded\"]">>
NO_READABLE_BODY ==
  <<NL, "graph", SP, "TD", NL, "A[\"No readable text received\"]:::document", NL>>
METHOD_NOT_ALLOWED_BODY == <<"Method Not Allowed">>

\* A variant of NoFiles that lets an empty upload through.
NoFilesNeverTrue(fs) == FALSE

\* !files.length, generate.js:36 and 240
NoFiles(fs) == Len(fs) = 0

\* A variant of CurrentFile that walks the upload from its end.
CurrentFileReversed(fs, k) == fs[Len(fs) + 1 - k]

\* The file the nested for..of loops visit at step k, generate.js:44-47, 249-252
CurrentFile(fs, k) == fs[k]

\* generate.js:21-23 and 227-228
CheckMethod ==
  /\ pc = "start"
  /\ IF method # "POST"
     THEN /\ Respond(405, METHOD_NOT_ALLOWED_BODY)
          /\ UNCHANGED <<files, i, failure>>
     ELSE /\ pc' = "parse"
          /\ UNCHANGED <<status, body, files, i, failure>>
  /\ UNCHANGED <<variant, method, combinedText, mergedBody, seenLines, reads,
                 calls, sent, gen, inFlight>>

\* form.parse settles, then the no-files check; generate.js:27-40, 232-242
ParseForm ==
  /\ pc = "parse"
  /\ \/ /\ Catch("parse")
        /\ UNCHANGED <<files, i>>
     \/ \E fs \in FileLists :
          /\ files' = fs
          /\ IF NoFiles(fs)
             THEN /\ Respond(400, NO_FILES_BODY)
                  /\ UNCHANGED i
             ELSE /\ pc' = "loop"
                  /\ i' = 1
                  /\ UNCHANGED <<status, body>>
          /\ UNCHANGED failure
  /\ UNCHANGED <<variant, method, combinedText, mergedBody, seenLines, reads,
                 calls, sent, gen, inFlight>>

\* `\n=== FILE: ${name} ===\n${text}\n`, generate.js:50-53, 61-64, 74-77
Segment(name, text) ==
  <<Piece(FILE_OPEN, 1), Piece(name, 1), Piece(FILE_CLOSE, 1)>>
    \o text \o <<Piece(NL, 1)>>

\* !combinedText.trim(), generate.js:81
IsBlankText(t) == \A k \in 1..Len(t) : IsWhitespaceChar(t[k].s)

\* The extension check of the combined variant, generate.js:49
IsSupported(f) == EndsWithTxt(ToLowerCase(f.originalFilename))

\* The text of one read file as the combined variant puts it into the
\* corpus, generate.js:58-72: trimmed, then capped.
NormalizedText(content) == Truncate(TextTrim(content))

\* Combined variant, one turn of the loop up to its await; generate.js:47-57
C_Loop ==
  /\ variant = "combined"
  /\ pc = "loop"
  /\ i <= Len(files)
  /\ LET f == CurrentFile(files, i)
     IN  IF ~IsSupported(f)
         THEN /\ combinedText' =
                   combinedText \o Segment(f.originalFilename,
                                           <<Piece(UNSUPPORTED_NOTE, 1)>>)
              /\ i' = i + 1
              /\ UNCHANGED <<pc, reads>>
         ELSE /\ reads' = Append(reads, f)
              /\ pc' = "read"
              /\ UNCHANGED <<combinedText, i>>
  /\ UNCHANGED <<variant, method, files, mergedBody, seenLines, status, body,
                 calls, sent, gen, inFlight, failure>>

\* Combined variant, readFile settles; generate.js:57-77
C_ReadReturn ==
  /\ variant = "combined"
  /\ pc = "read"
  /\ \/ /\ Catch("read")
        /\ UNCHANGED <<combinedText, i, sent>>
     \/ LET f == CurrentFile(files, i)
            text == TextTrim(f.content)
        IN  /\ IF ~looksLikeText(text)
               THEN /\ combinedText' =
                         combinedText \o Segment(f.originalFilename,
                                                 <<Piece(UNREADABLE_NOTE, 1)>>)
                    /\ UNCHANGED sent
               ELSE /\ combinedText' =
                         combinedText \o Segment(f.originalFilename,
                                                 NormalizedText(f.content))
                    /\ sent' = Append(sent, [file |-> f,
                                             text |-> NormalizedText(f.content)])
            /\ i' = i + 1
            /\ pc' = "loop"
            /\ UNCHANGED <<status, body, failure>>
  /\ UNCHANGED <<variant, method, files, mergedBody, seenLines, reads, calls,
                 gen, inFlight>>

\* Combined variant, after the loop: the empty-corpus exit or the fetch;
\* generate.js:81-156.  Every file visited appends a segment, so with the
\* non-empty upload that reaches this point the corpus is never blank.
C_Compose ==
  /\ variant = "combined"
  /\ pc = "loop"
  /\ i > Len(files)
  /\ IF IsBlankText(combinedText)
     THEN /\ Respond(200, NO_READABLE_BODY)
          /\ UNCHANGED <<calls, inFlight>>
     ELSE /\ calls' = Append(calls, combinedText)
          /\ inFlight' = inFlight + 1
          /\ pc' = "fetch"
          /\ UNCHANGED <<status, body>>
  /\ UNCHANGED <<variant, method, files, i, combinedText, mergedBody,
                 seenLines, reads, sent, gen, failure>>

\* Combined variant, fetch settles; generate.js:139-158
C_FetchReturn ==
  /\ variant = "combined"
  /\ pc = "fetch"
  /\ \/ /\ Catch("fetch")
        /\ inFlight' = inFlight - 1
     \/ /\ pc' = "json"
        /\ UNCHANGED <<status, body, failure, inFlight>>
  /\ UNCHANGED <<variant, method, files, i, combinedText, mergedBody,
                 seenLines, reads, calls, sent, gen>>

\* Combined variant, response.json() settles; generate.js:158-171
C_JsonReturn ==
  /\ variant = "combined"
  /\ pc = "json"
  /\ inFlight' = inFlight - 1
  /\ \/ /\ Catch("json")
        /\ UNCHANGED gen
     \/ \E data \in Responses :
          LET mermaidCode == ExtractDiagram(RawText(data), FALLBACK_COMBINED)
          IN  /\ gen' = Append(gen, [data |-> data, fragment |-> mermaidCode])
              /\ Respond(200, mermaidCode)
              /\ UNCHANGED failure
  /\ UNCHANGED <<variant, method, files, i, combinedText, mergedBody,
                 seenLines, reads, calls, sent>>

\* Per-file variant, one turn of the loop up to its await; generate.js:252-255
P_Loop ==
  /\ variant = "perfile"
  /\ pc = "loop"
  /\ i <= Len(files)
  /\ reads' = Append(reads, CurrentFile(files, i))
  /\ pc' = "read"
  /\ UNCHANGED <<variant, method, files, i, combinedText, mergedBody,
                 seenLines, status, body, calls, sent, gen, inFlight, failure>>

\* The document a per-file prompt embeds, generate.js:256 and 301-302
PromptDocument(content) == content

\* Per-file variant, readFile settles; generate.js:255-305 and 197-209
P_ReadReturn ==
  /\ variant = "perfile"
  /\ pc = "read"
  /\ \/ /\ Catch("read")
        /\ UNCHANGED <<i, calls, sent, inFlight>>
     \/ LET f == CurrentFile(files, i)
            content == f.content
        IN  /\ IF ~looksLikeTextPF(content)
               THEN /\ i' = i + 1
                    /\ pc' = "loop"
                    /\ UNCHANGED <<calls, sent, inFlight>>
               ELSE /\ sent' = Append(sent, [file |-> f,
                                             text |-> PromptDocument(content)])
                    /\ calls' = Append(calls, PromptDocument(content))
                    /\ inFlight' = inFlight + 1
                    /\ pc' = "fetch"
                    /\ UNCHANGED i
            /\ UNCHANGED <<status, body, failure>>
  /\ UNCHANGED <<variant, method, files, combinedText, mergedBody, seenLines,
                 reads, gen>>

\* callClaude, fetch settles; generate.js:197-211
P_FetchReturn ==
  /\ variant = "perfile"
  /\ pc = "fetch"
  /\ \/ /\ Catch("fetch")
        /\ inFlight' = inFlight - 1
     \/ /\ pc' = "json"
        /\ UNCHANGED <<status, body, failure, inFlight>>
  /\ UNCHANGED <<variant, method, files, i, combinedText, mergedBody,
                 seenLines, reads, calls, sent, gen>>

\* callClaude as a function of the parsed response, generate.js:217-222
callClaude(data) == ExtractDiagram(RawText(data), FALLBACK_PERFILE)

\* Per-file variant, response.json() settles, callClaude returns and the
\* fragment is merged; generate.js:211-222 and 305-317
P_JsonReturn ==
  /\ variant = "perfile"
  /\ pc = "json"
  /\ inFlight' = inFlight - 1
  /\ \/ /\ Catch("json")
        /\ UNCHANGED <<gen, mergedBody, seenLines, i>>
     \/ \E data \in Responses :
          LET partialDiagram == callClaude(data)
              acc == MergeFragment(partialDiagram,
                                   [body |-> mergedBody, seen |-> seenLines])
          IN  /\ gen' = Append(gen, [data |-> data, fragment |-> partialDiagram])
              /\ mergedBody' = acc.body
              /\ seenLines' = acc.seen
              /\ i' = i + 1
              /\ pc' = "loop"
              /\ UNCHANGED <<status, body, failure>>
  /\ UNCHANGED <<variant, method, files, combinedText, reads, calls, sent>>

\* Per-file variant, after the loop; generate.js:331-339
P_Assemble ==
  /\ variant = "perfile"
  /\ pc = "loop"
  /\ i > Len(files)
  /\ Respond(200, FinalDiagram(mergedBody))
  /\ UNCHANGED <<variant, method, files, i, combinedText, mergedBody,
                 seenLines, reads, calls, sent, gen, inFlight, failure>>

Next ==
  \/ CheckMethod
  \/ ParseForm
  \/ C_Loop
  \/ C_ReadReturn
  \/ C_Compose
  \/ C_FetchReturn
  \/ C_JsonReturn
  \/ P_Loop
  \/ P_ReadReturn
  \/ P_FetchReturn
  \/ P_JsonReturn
  \/ P_Assemble

Spec == Init /\ [][Next]_vars

\* ------------------------------------------------- vocabulary of the claims
NonEmptyLine(line) == line # <<>>

\* The non-empty trimmed lines of a diagram text, in order.
DiagramLines(t) ==
  LET lines == SplitLines(t)
  IN  SelectSeq([k \in 1..Len(lines) |-> TokTrim(lines[k])], NonEmptyLine)

NoDuplicates(s) == \A a, b \in 1..Len(s) : a # b => s[a] # s[b]

Range(s) == {s[k] : k \in 1..Len(s)}

\* t begins with "graph", whitespace, then TD or LR.
StartsWithHeader(t) ==
  /\ Len(t) >= 3
  /\ t[1] = "graph"
  /\ \E q \in 3..Len(t) :
       /\ t[q] \in {"TD", "LR"}
       /\ \A k \in 2..(q - 1) : t[k] \in {SP, NL}

\* A header-only diagram with exactly one node line.
SingleNodeDiagram(t) ==
  /\ StartsWithHeader(t)
  /\ Len(DiagramLines(t)) = 2

\* Positions where a graph header starts, the letter case ignored or not.
HeaderStarts(t, anyCase) ==
  {p \in 1..Len(t) :
     /\ (IF anyCase THEN Lower(t[p]) ELSE t[p]) \in {"graph", "subgraph"}
     /\ \E q \in (p + 2)..Len(t) :
          /\ (IF anyCase THEN Lower(t[q]) \in {"td", "lr"}
                         ELSE t[q] \in {"TD", "LR"})
          /\ \A k \in (p + 1)..(q - 1) : t[k] \in {SP, NL}}

\* The text from position p on, its first word cut down to "graph" in the
\* case it has, surrounding whitespace removed.
FromHeader(t, p) ==
  TokTrim(<<(IF t[p] = "subgraph" THEN "graph" ELSE t[p])>>
            \o SubSeq(t, p + 1, Len(t)))

Fallback == IF variant = "combined" THEN FALLBACK_COMBINED ELSE FALLBACK_PERFILE

\* The part of a final per-file diagram after the header and the preamble.
FINAL_PREFIX == <<"graph", SP, "TD", NL>> \o CLASS_STYLES \o <<NL>>
BodyPart(t) == SubSeq(t, Len(FINAL_PREFIX) + 1, Len(t))

PerFileDone == variant = "perfile" /\ pc = "done" /\ status = 200

\* ------------------------------------------------------------------ C1
\* C1 (as claimed): on every exit path the body sent begins with a graph
\* header, "graph TD" or "graph LR".
C1_EveryBodyStartsWithHeader ==
  pc = "done" => StartsWithHeader(body)

\* ------------------------------------------------------------------ C2
\* C2 (as claimed): when the remote call fails (fetch rejects or the response
\* cannot be parsed) the request still ends with status 200, not 500.
C2_RemoteFailureEndsIn200 ==
  (pc = "done" /\ failure \in {"fetch", "json"}) => status = 200

\* ------------------------------------------------------------------ C3
\* C3 (as claimed): no non-empty trimmed line appears twice in the final
\* merged diagram, header and class-style preamble included.
C3_NoLineTwiceInFinalDiagram ==
  PerFileDone => NoDuplicates(DiagramLines(body))

\* What the merge does guarantee: no non-empty trimmed line appears twice in
\* the merged body, the part of the final diagram after the fixed header and
\* preamble, and every such line of every merged fragment's body is in it.
MergedBodyHasNoLineTwice ==
  variant = "perfile" =>
    /\ NoDuplicates(DiagramLines(mergedBody))
    /\ seenLines = Range(DiagramLines(mergedBody))
    /\ \A k \in 1..Len(gen) :
         Range(DiagramLines(StripHeader(gen[k].fragment))) \subseteq seenLines
    /\ PerFileDone => NoDuplicates(DiagramLines(BodyPart(body)))

\* ------------------------------------------------------------------ C4
\* C4 (as claimed): when the response text holds a graph header in any letter
\* case, the fragment is the text from the first such header on, and the
\* fallback is returned only when there is none in any case.
C4_HeaderMatchedInAnyCase ==
  \A k \in 1..Len(gen) :
    LET raw == RawText(gen[k].data)
        ps == HeaderStarts(raw, TRUE)
    IN  ps # {} =>
          /\ gen[k].fragment = FromHeader(raw, CHOOSE p \in ps : \A r \in ps : p <= r)
          /\ gen[k].fragment # Fallback

\* C4 (amended): when the response text holds a graph header in exact letter
\* case ("graph", whitespace, "TD" or "LR"), the fragment is the text from
\* the first such header to the end, trimmed; otherwise, also when a header
\* is there in another letter case only, the fragment is the fallback.
C4_HeaderMatchedInExactCase ==
  \A k \in 1..Len(gen) :
    LET raw == RawText(gen[k].data)
        ps == HeaderStarts(raw, FALSE)
    IN  IF ps # {}
        THEN gen[k].fragment = FromHeader(raw, CHOOSE p \in ps : \A r \in ps : p <= r)
        ELSE gen[k].fragment = Fallback

\* A response with leading commentary lost it, and a response whose header
\* is in another letter case got the fallback.
C4_Witness ==
  /\ \E k \in 1..Len(gen) :
       /\ gen[k].data.text = T_COMMENT
       /\ gen[k].fragment = <<"graph", SP, SP, "TD", NL, "C-->D", NL, "~~~">>
  /\ \E k \in 1..Len(gen) :
       /\ gen[k].data.text = T_UPPER
       /\ gen[k].fragment = Fallback

\* ------------------------------------------------------------------ C5
\* C5 (as claimed): a file whose name lacks a supported extension is never
\* read and its content never reaches a prompt, in either variant.
C5_UnsupportedNeverReadNorSent ==
  /\ \A k \in 1..Len(reads) : IsSupported(reads[k])
  /\ \A k \in 1..Len(sent) : IsSupported(sent[k].file)

\* ------------------------------------------------------------------ C6
\* C6 (as claimed): in every mode the file text put into a prompt is the
\* text itself when at or under the cap, and otherwise its first MAX_CHARS
\* characters followed by the truncation marker.
C6_SentTextCapped ==
  \A k \in 1..Len(sent) :
    LET src == IF variant = "combined" THEN TextTrim(sent[k].file.content)
               ELSE sent[k].file.content
        out == sent[k].text
    IN  /\ TextLength(out) <= MAX_CHARS + LitLen(TRUNC_MARKER)
        /\ IF TextLength(src) > MAX_CHARS
           THEN /\ out[Len(out)] = Piece(TRUNC_MARKER, 1)
                /\ TextLength(SubSeq(out, 1, Len(out) - 1)) = MAX_CHARS
           ELSE out = src

RECURSIVE CorpusNames(_)
CorpusNames(t) ==
  IF Len(t) < 2 THEN <<>>
  ELSE IF Head(t).s = FILE_OPEN
       THEN <<t[2].s>> \o CorpusNames(Tail(Tail(t)))
       ELSE CorpusNames(Tail(t))

FileNames(fs, n) == [k \in 1..n |-> fs[k].originalFilename]

ReadablePF(f) == looksLikeTextPF(f.content)

\* The fragments of the first n returned calls, merged in that order.
RECURSIVE MergedUpTo(_, _)
MergedUpTo(g, n) ==
  IF n = 0 THEN [body |-> <<>>, seen |-> {}]
  ELSE MergeFragment(g[n].fragment, MergedUpTo(g, n - 1))

\* C8: files are handled one at a time in upload order.  At most one remote
\* call is in flight and a call is issued only after every earlier one has
\* returned; files are read in upload order; the combined corpus carries the
\* segments of the files handled so far in upload order, and all of them
\* when it is sent; per-file calls carry the readable files' contents in
\* upload order and the merged body is the in-order merge of the fragments.
C8_SequentialInUploadOrder ==
  /\ inFlight \in {0, 1}
  /\ inFlight = (IF pc \in {"fetch", "json"} THEN 1 ELSE 0)
  /\ Len(gen) <= Len(calls)
  /\ Len(calls) <= Len(gen) + 1
  /\ variant = "combined" =>
       LET names == CorpusNames(combinedText)
       IN  /\ Len(names) <= Len(files)
           /\ names = FileNames(files, Len(names))
           /\ pc \in {"loop", "read"} => Len(names) = i - 1
           /\ Len(reads) <= Len(SelectSeq(files, IsSupported))
           /\ reads = SubSeq(SelectSeq(files, IsSupported), 1, Len(reads))
           /\ calls # <<>> =>
                /\ calls = <<combinedText>>
                /\ Len(names) = Len(files)
  /\ variant = "perfile" =>
       /\ Len(reads) <= Len(files)
       /\ reads = SubSeq(files, 1, Len(reads))
       /\ Len(sent) <= Len(SelectSeq(files, ReadablePF))
       /\ [k \in 1..Len(sent) |-> sent[k].file]
            = SubSeq(SelectSeq(files, ReadablePF), 1, Len(sent))
       /\ calls = [k \in 1..Len(sent) |-> sent[k].text]
       /\ mergedBody = MergedUpTo(gen, Len(gen)).body

\* Two different files each had their call return, one after the other.
C8_Witness ==
  /\ PerFileDone
  /\ Len(gen) = 2
  /\ calls[1] # calls[2]
  /\ gen[1].fragment # gen[2].fragment

\* ------------------------------------------------------------------ C9
\* C9: a POST whose parsed upload holds no file is answered at once with
\* status 400 and a diagram of a graph header and one diagnostic node,
\* with no file read and no remote call.
C9_NoFilesGives400 ==
  (method = "POST" /\ pc \notin {"start", "parse"} /\ failure # "parse"
     /\ files = <<>>) =>
    /\ pc = "done"
    /\ status = 400
    /\ SingleNodeDiagram(body)
    /\ reads = <<>>
    /\ calls = <<>>

\* The empty upload was answered.
C9_Witness ==
  /\ method = "POST"
  /\ pc = "done"
  /\ failure = "none"
  /\ files = <<>>

\* ------------------------------------------------------------------ C10
\* C10 (as claimed): the final per-file diagram holds the placeholder node
\* line only when no file contributed a diagram line, never alongside
\* lines that fragments contributed.
C10_PlaceholderOnlyWhenNothingElse ==
  PerFileDone =>
    LET lines == Range(DiagramLines(BodyPart(body)))
    IN  <<PLACEHOLDER_NODE>> \in lines => lines = {<<PLACEHOLDER_NODE>>}


====
